---- MODULE Spec2Model ----
(***************************************************************************)
(* Model of the AI-food backend core:                                      *)
(*   - RoboflowVisionService (src/backend/services/vision_service.py):     *)
(*     cold-start retry loop, confidence filtering, label normalisation.   *)
(*   - build_recipe_filters / validate_recipe_for_user                     *)
(*     (src/backend/logic.py).                                             *)
(*                                                                         *)
(* Conventions.                                                            *)
(*   Python values are tagged records: [t |-> "none"], [t |-> "num", v],   *)
(*   [t |-> "str", v], [t |-> "list", v], [t |-> "dict", v].  A str holds  *)
(*   a sequence of one-character strings, so that lower(), strip(),        *)
(*   title(), join() and the substring test are computed, not assumed.     *)
(*   A dict holds a function from keys to Python values.                   *)
(*   Floats in [0,1] (confidences, the threshold) are integers in units    *)
(*   of 1/10000, so 0.5 is 5000 and 1.0 is 10000.                          *)
(*   A call either returns or raises: [exc |-> "none", value |-> v] or     *)
(*   [exc |-> "<ExceptionName>"].                                           *)
(***************************************************************************)
EXTENDS Integers, Sequences, FiniteSets, TLC

VARIABLES
    confidence_threshold,   \* RoboflowVisionService.confidence_threshold
    set_call,               \* last set_confidence_threshold call: argument and outcome
    pc,                     \* position of the detect call in flight
    mode,                   \* "plain" (detect_ingredients) or "details"
    attempt,                \* loop variable of _run_workflow
    calls,                  \* remote run_workflow calls made by the current detect call
    sleeps,                 \* time.sleep arguments of the current detect call, in order
    responses,              \* what the remote backend answered, per call, in order
    result,                 \* local `result` (last remote answer / _run_workflow's return)
    oi,                     \* cursor of `for output in result`
    pi,                     \* cursor of `for prediction in predictions`
    ingredients,            \* local accumulator: a set (plain) or a list (details)
    ret,                    \* outcome of the detect call delivered to its caller
    user_profile,           \* argument of build_recipe_filters / validate_recipe_for_user
    recipe,                 \* argument of validate_recipe_for_user
    filters,                \* outcome of the last build_recipe_filters call
    validation,             \* outcome of the last validate_recipe_for_user call
    threshold_at_call,      \* confidence_threshold when the detect call in flight was made
    filter_sets,            \* FilterSets as build_recipe_filters returned them, per call
    validator_filters,      \* local `filters` of the last validate_recipe_for_user call
    search_result,          \* outcome of the last search_recipes call (formatted recipes)
    config,                 \* Config: which API keys the environment supplies
    vision_service,         \* app.py global handle: 0 is None, n the object of init run n
    recipe_service,         \* app.py global handle
    nutrition_service,      \* app.py global handle
    init_runs,              \* number of init_services runs so far
    requests                \* the HTTP requests in flight or answered, per worker thread

visionVars == <<confidence_threshold, set_call, pc, mode, attempt, calls, sleeps,
                responses, result, oi, pi, ingredients, ret, threshold_at_call>>
logicVars  == <<user_profile, recipe, filters, validation>>
pipelineVars == <<filter_sets, validator_filters, search_result>>
appVars == <<config, vision_service, recipe_service, nutrition_service, init_runs, requests>>
vars == <<confidence_threshold, set_call, pc, mode, attempt, calls, sleeps,
          responses, result, oi, pi, ingredients, ret,
          user_profile, recipe, filters, validation,
          threshold_at_call, filter_sets, validator_filters, search_result,
          config, vision_service, recipe_service, nutrition_service, init_runs, requests>>

(***************************************************************************)
(* Bounds of the model.                                                    *)
(***************************************************************************)
MaxPreds == 2       \* longest predictions list of a single-output remote result
MaxNutrients == 2   \* longest nutrient list of a recipe

(***************************************************************************)
(* Python values.                                                          *)
(***************************************************************************)
PyNone    == [t |-> "none"]
PyNum(n)  == [t |-> "num", v |-> n]
PyStr(s)  == [t |-> "str", v |-> s]
PyList(q) == [t |-> "list", v |-> q]
PyDict(f) == [t |-> "dict", v |-> f]

EmptyDict == PyDict(<<>>)
EmptyList == PyList(<<>>)

\* dict.get(key, default)
Get(d, key, default) == IF key \in DOMAIN d.v THEN d.v[key] ELSE default

Returned(v) == [exc |-> "none", value |-> v]
Raised(e)   == [exc |-> e]
NoOutcome   == [exc |-> "pending"]

(***************************************************************************)
(* str methods, character by character.                                    *)
(***************************************************************************)
UpperCase == <<"A","B","C","D","E","F","G","H","I","J","K","L","M",
               "N","O","P","Q","R","S","T","U","V","W","X","Y","Z">>
LowerCase == <<"a","b","c","d","e","f","g","h","i","j","k","l","m",
               "n","o","p","q","r","s","t","u","v","w","x","y","z">>

IsUpper(c) == \E i \in 1..26 : UpperCase[i] = c
IsLower(c) == \E i \in 1..26 : LowerCase[i] = c
IsAlpha(c) == IsUpper(c) \/ IsLower(c)
IsSpace(c) == c \in {" ", "\t", "\n", "\r"}

LowerChar(c) == IF IsUpper(c) THEN LowerCase[CHOOSE i \in 1..26 : UpperCase[i] = c] ELSE c
UpperChar(c) == IF IsLower(c) THEN UpperCase[CHOOSE i \in 1..26 : LowerCase[i] = c] ELSE c

\* str.lower()
Lower(s) == [i \in 1..Len(s) |-> LowerChar(s[i])]

\* str.strip()
RECURSIVE LStrip(_)
LStrip(s) == IF s # <<>> /\ IsSpace(Head(s)) THEN LStrip(Tail(s)) ELSE s
RECURSIVE RStrip(_)
RStrip(s) == IF s # <<>> /\ IsSpace(s[Len(s)]) THEN RStrip(SubSeq(s, 1, Len(s) - 1)) ELSE s
Strip(s) == RStrip(LStrip(s))

\* needle in hay
Contains(hay, needle) ==
    \E i \in 0..(Len(hay) - Len(needle)) : SubSeq(hay, i + 1, i + Len(needle)) = needle

\* str.title(): a letter is upper-cased when no letter precedes it, and
\* lower-cased otherwise.
Title(s) ==
    [i \in 1..Len(s) |-> IF i = 1 \/ ~IsAlpha(s[i - 1]) THEN UpperChar(s[i])
                         ELSE LowerChar(s[i])]

\* sep.join(parts) for a list of strings
RECURSIVE Join(_, _)
Join(sep, parts) ==
    IF parts = <<>> THEN <<>>
    ELSE IF Len(parts) = 1 THEN parts[1]
    ELSE parts[1] \o sep \o Join(sep, Tail(parts))

\* str(n) / f"{n}" for an int
Digit(d) == <<"0","1","2","3","4","5","6","7","8","9">>[d + 1]
RECURSIVE DecimalNat(_)
DecimalNat(n) == IF n < 10 THEN <<Digit(n)>> ELSE DecimalNat(n \div 10) \o <<Digit(n % 10)>>
Decimal(n) == IF n < 0 THEN <<"-">> \o DecimalNat(0 - n) ELSE DecimalNat(n)

\* bool(x)
Truthy(x) ==
    CASE x.t = "none" -> FALSE
      [] x.t = "num"  -> x.v # 0
      [] x.t = "str"  -> x.v # <<>>
      [] x.t = "list" -> x.v # <<>>
      [] x.t = "dict" -> DOMAIN x.v # {}

(***************************************************************************)
(* RoboflowVisionService: program constants.                               *)
(***************************************************************************)
DefaultThreshold == 5000          \* self.confidence_threshold = 0.5
max_retries == 3                  \* _run_workflow(..., max_retries: int = 3)
ThresholdMin == 0                 \* 0.0 in `0.0 <= threshold <= 1.0`
ThresholdMax == 10000             \* 1.0 in `0.0 <= threshold <= 1.0`

\* "being initialized"
BeingInitialized == <<"b","e","i","n","g"," ","i","n","i","t","i","a","l","i","z","e","d">>

(***************************************************************************)
(* Inputs: what the remote workflow may answer.                            *)
(***************************************************************************)
SeqsUpTo(S, n) == UNION {[1..k -> S] : k \in 0..n}

\* "Model is Being Initialized."
MsgCold == <<"M","o","d","e","l"," ","i","s"," ","B","e","i","n","g"," ",
             "I","n","i","t","i","a","l","i","z","e","d",".">>
\* "Being ready"
MsgReady == <<"B","e","i","n","g"," ","r","e","a","d","y">>

LblTomato  == <<"T","o","m","a","t","o">>        \* "Tomato"
LblTomato2 == <<" ","t","o","m","a","t","o">>    \* " tomato"
LblEgg     == <<"e","g","g"," ">>                \* "egg "
LblBlank   == <<" ">>                            \* " "

Prediction(conf, cls) == PyDict(("confidence" :> PyNum(conf)) @@ ("class" :> PyStr(cls)))

Preds ==
    { Prediction(10000, LblTomato),
      Prediction(5000, LblTomato2),
      Prediction(4996, LblTomato),
      Prediction(4996, LblEgg),
      Prediction(10000, LblBlank),
      PyDict("confidence" :> PyNum(5000)),                       \* no "class"
      PyDict(("class" :> PyStr(LblEgg)) @@ ("x" :> PyNum(7))
             @@ ("width" :> PyNum(3))),                          \* no "confidence"
      Prediction(5004, <<>>) }

NestedOutput(q) == PyDict("predictions" :> PyDict("predictions" :> PyList(q)))
FlatOutput(q)   == PyDict("predictions" :> PyList(q))

ColdResult == PyList(<<PyDict("message" :> PyStr(MsgCold))>>)

WellFormedResults ==
    {PyList(<<NestedOutput(q)>>) : q \in SeqsUpTo(Preds, MaxPreds)}
    \cup {PyList(<<FlatOutput(<<p>>)>>) : p \in Preds}
    \cup {PyList(<<NestedOutput(<<p>>), FlatOutput(<<q>>)>>) :
             p \in {Prediction(10000, LblTomato), Prediction(4996, LblEgg)},
             q \in {Prediction(5000, LblTomato2), Prediction(10000, LblBlank)}}
    \cup {PyList(<<PyDict(("message" :> PyStr(MsgReady))
                          @@ ("predictions" :> PyList(<<Prediction(10000, LblTomato)>>)))>>),
          PyList(<<PyDict("message" :> PyStr(MsgReady))>>),
          EmptyList}

UnexpectedResults ==
    { PyNone,
      EmptyDict,
      PyList(<<PyNone>>),
      PyList(<<PyDict("message" :> PyNone)>>),
      PyList(<<PyDict("predictions" :> PyNone)>>),
      PyList(<<PyDict("predictions" :> PyStr(LblEgg))>>),
      PyList(<<FlatOutput(<<PyNone>>)>>),
      PyList(<<FlatOutput(<<PyDict("confidence" :> PyNone)>>)>>),
      PyList(<<FlatOutput(<<PyDict(("confidence" :> PyNum(10000)) @@ ("class" :> PyNone))>>)>>) }

Results == {ColdResult} \cup WellFormedResults \cup UnexpectedResults

\* client.run_workflow(...) either raises (transport failure) or returns a value
Responses == {Raised("TransportError")} \cup {Returned(r) : r \in Results}

ThresholdArgs == {-1000, 0, 5000, 10000, 11000}   \* -0.1, 0.0, 0.5, 1.0, 1.1

NoCall == [arg |-> 0, exc |-> "nocall"]

(***************************************************************************)
(* RoboflowVisionService._run_workflow                                     *)
(***************************************************************************)
\* Lines 68-72: is `result` the cold-start answer?  "cold", "no", or the
\* exception that evaluating the test raises (message.lower() on a non-str).
ColdStartCheck(r) ==
    IF r.t = "list" /\ Len(r.v) > 0
    THEN LET first_item == r.v[1] IN
         IF first_item.t = "dict" /\ "message" \in DOMAIN first_item.v
         THEN LET message == Get(first_item, "message", PyStr(<<>>)) IN
              IF message.t # "str" THEN "AttributeError"
              ELSE IF Contains(Lower(message.v), BeingInitialized) THEN "cold" ELSE "no"
         ELSE "no"
    ELSE "no"

\* Variant: the cold-start answer of the last attempt is slept on and retried too.
RetryAllowed_EveryAttempt(n) == n < max_retries

\* Line 73: a cold-start answer is retried only while attempts remain.
RetryAllowed(n) == n < max_retries - 1

\* Variant: a constant wait instead of the growing one.
WaitTime_Constant(n) == 5

\* Line 75: wait_time = (attempt + 1) * 5
WaitTime(n) == (n + 1) * 5

\* Variant: a raising remote call is retried like a cold-start answer.
AfterAttempt_RetryOnFailure(n, resp) ==
    IF resp.exc # "none"
    THEN IF n < max_retries - 1 THEN "backoff" ELSE "raised"
    ELSE LET check == ColdStartCheck(resp.value) IN
         IF check \notin {"cold", "no"} THEN "raised"
         ELSE IF check = "cold" /\ n < max_retries - 1 THEN "backoff"
         ELSE "extract"

\* Lines 59-79: where one iteration of the loop leaves the call.  A raising
\* remote call is caught by nothing; a cold-start answer is followed by the
\* backoff sleep while attempts remain; anything else is returned.
AfterAttempt(n, resp) ==
    IF resp.exc # "none" THEN "raised"
    ELSE LET check == ColdStartCheck(resp.value) IN
         IF check \notin {"cold", "no"} THEN "raised"
         ELSE IF check = "cold" /\ RetryAllowed(n) THEN "backoff"
         ELSE "extract"

(***************************************************************************)
(* Extraction (detect_ingredients, detect_ingredients_with_details).       *)
(***************************************************************************)
\* Variant: a confidence equal to the threshold is dropped.
MeetsThreshold_Strict(confidence, threshold) == confidence > threshold

\* Line 110 / 162: confidence >= self.confidence_threshold
MeetsThreshold(confidence, threshold) == confidence >= threshold

\* Variant: the label is trimmed but its case is kept.
NormalizeLabel_KeepCase(cls) == Strip(cls)

\* Line 111 / 164: .lower().strip()
NormalizeLabel(cls) == Strip(Lower(cls))

\* Line 165: round(confidence, 3), in units of 1/10000 (no modelled
\* confidence lies exactly halfway between two thousandths).
Round3(c) == ((c + 5) \div 10) * 10

\* Lines 104-106: the `predictions` value of one output.
PredictionsOf(output) ==
    LET predictions == Get(output, "predictions", EmptyDict) IN
    IF predictions.t = "dict" THEN Get(predictions, "predictions", EmptyList)
    ELSE predictions

\* `for prediction in predictions`: the items iterated, or TypeError.
\* Iterating a dict yields its keys and iterating a str its characters,
\* both of them str objects.
Iterate(x) ==
    CASE x.t = "list" -> Returned(x.v)
      [] x.t = "dict" -> Returned([i \in 1..Cardinality(DOMAIN x.v) |-> PyStr(<<"k">>)])
      [] x.t = "str"  -> Returned([i \in 1..Len(x.v) |-> PyStr(<<x.v[i]>>)])
      [] OTHER        -> Raised("TypeError")

\* Lines 112-113: ingredients.add(name) guarded by `if ingredient_name:`
AddIngredient(S, name) == IF name # <<>> THEN S \cup {name} ELSE S

\* Lines 163-172: the entry detect_ingredients_with_details appends.
DetailEntry(prediction, confidence, name) ==
    [ name       |-> name,
      confidence |-> Round3(confidence),
      bbox       |-> [ x      |-> Get(prediction, "x", PyNum(0)),
                       y      |-> Get(prediction, "y", PyNum(0)),
                       width  |-> Get(prediction, "width", PyNum(0)),
                       height |-> Get(prediction, "height", PyNum(0)) ] ]

\* Lines 109-113 / 161-172: the body of the inner loop for one prediction.
\* Yields the new accumulator, or the exception the body raises.
ProcessPrediction(m, acc, prediction, threshold) ==
    IF prediction.t # "dict" THEN Raised("AttributeError")
    ELSE LET confidence == Get(prediction, "confidence", PyNum(0)) IN
         IF confidence.t # "num" THEN Raised("TypeError")
         ELSE IF ~MeetsThreshold(confidence.v, threshold) THEN Returned(acc)
         ELSE LET cls == Get(prediction, "class", PyStr(<<>>)) IN
              IF cls.t # "str" THEN Raised("AttributeError")
              ELSE IF m = "plain"
                   THEN Returned(AddIngredient(acc, NormalizeLabel(cls.v)))
                   ELSE Returned(Append(acc,
                            DetailEntry(prediction, confidence.v, NormalizeLabel(cls.v))))

\* list(ingredients): the elements of the set, each once, in some order.
ListsOfSet(S) == {q \in [1..Cardinality(S) -> S] : \A x \in S : \E i \in DOMAIN q : q[i] = x}

(***************************************************************************)
(* Placeholders of the variables a specification does not use.             *)
(***************************************************************************)
IdleCall ==
    /\ pc = "idle" /\ mode = "plain" /\ attempt = 0 /\ calls = 0
    /\ sleeps = <<>> /\ responses = <<>> /\ result = PyNone
    /\ oi = 1 /\ pi = 1 /\ ingredients = {} /\ ret = NoOutcome
    /\ threshold_at_call = DefaultThreshold

NoLogic ==
    /\ user_profile = EmptyDict /\ recipe = EmptyDict
    /\ filters = NoOutcome /\ validation = NoOutcome

NoPipeline ==
    /\ filter_sets = <<>> /\ validator_filters = NoOutcome /\ search_result = NoOutcome

NoApp ==
    /\ config = [ROBOFLOW_API_KEY |-> FALSE, SPOONACULAR_API_KEY |-> FALSE,
                 USDA_API_KEY |-> FALSE]
    /\ vision_service = 0 /\ recipe_service = 0 /\ nutrition_service = 0
    /\ init_runs = 0
    /\ requests = <<>>

(***************************************************************************)
(* Vision service: state machine.                                          *)
(***************************************************************************)
\* __init__ (line 43): the threshold starts at 0.5; no call is in flight.
Init ==
    /\ confidence_threshold = DefaultThreshold
    /\ set_call = NoCall
    /\ IdleCall
    /\ NoLogic
    /\ NoPipeline
    /\ NoApp

\* Variant: an out-of-range threshold is clamped into [0.0, 1.0].
SetThresholdOutcome_Clamp(threshold) ==
    Returned(IF threshold < 0 THEN 0 ELSE IF threshold > 10000 THEN 10000 ELSE threshold)

\* set_confidence_threshold(threshold), lines 183-186.
SetThresholdOutcome(threshold) ==
    IF ThresholdMin <= threshold /\ threshold <= ThresholdMax
    THEN Returned(threshold)
    ELSE Raised("ValueError")

SetConfidenceThreshold(threshold) ==
    /\ pc = "idle"
    /\ LET o == SetThresholdOutcome(threshold) IN
       /\ confidence_threshold' = IF o.exc = "none" THEN o.value ELSE confidence_threshold
       /\ set_call' = [arg |-> threshold, exc |-> o.exc]
    /\ UNCHANGED <<threshold_at_call, pc, mode, attempt, calls, sleeps, responses, result, oi, pi,
                   ingredients, ret>>
    /\ UNCHANGED <<logicVars, pipelineVars, appVars>>

\* detect_ingredients(image_path) / detect_ingredients_with_details(image_path)
\* is called: line 96 / 149 enters _run_workflow, the loop starts at attempt 0.
Detect(m) ==
    /\ pc = "idle"
    /\ pc' = "attempt"
    /\ mode' = m
    /\ attempt' = 0 /\ calls' = 0 /\ sleeps' = <<>> /\ responses' = <<>>
    /\ result' = PyNone /\ oi' = 1 /\ pi' = 1
    /\ ingredients' = IF m = "plain" THEN {} ELSE <<>>
    /\ ret' = NoOutcome
    /\ threshold_at_call' = confidence_threshold
    /\ UNCHANGED <<confidence_threshold, set_call>>
    /\ UNCHANGED <<logicVars, pipelineVars, appVars>>

\* One iteration of the loop of _run_workflow up to its sleep or its return
\* (lines 58-79): the remote call and the cold-start test.
RunWorkflowAttempt(resp) ==
    /\ pc = "attempt"
    /\ calls' = calls + 1
    /\ responses' = Append(responses, resp)
    /\ result' = IF resp.exc = "none" THEN resp.value ELSE result
    /\ pc' = AfterAttempt(attempt, resp)
    /\ ret' = IF AfterAttempt(attempt, resp) # "raised" THEN ret
              ELSE IF resp.exc # "none" THEN resp
              ELSE Raised(ColdStartCheck(resp.value))
    /\ UNCHANGED <<threshold_at_call, confidence_threshold, set_call, mode, attempt, sleeps, oi, pi,
                   ingredients>>
    /\ UNCHANGED <<logicVars, pipelineVars, appVars>>

\* Lines 75-77: time.sleep(wait_time); continue
RunWorkflowSleep ==
    /\ pc = "backoff"
    /\ sleeps' = Append(sleeps, WaitTime(attempt))
    /\ attempt' = attempt + 1
    /\ pc' = "attempt"
    /\ UNCHANGED <<threshold_at_call, confidence_threshold, set_call, mode, calls, responses, result,
                   oi, pi, ingredients, ret>>
    /\ UNCHANGED <<logicVars, pipelineVars, appVars>>

\* One step of the extraction loops (lines 102-115 / 154-174) at cursor
\* (oi, pi): leave the loops and return, enter the next output, or process
\* one prediction.
ExtractStep ==
    /\ pc = "extract"
    /\ IF result.t # "list" \/ oi > Len(result.v)
       THEN \* return list(ingredients) / return ingredients
            /\ pc' = "returned"
            /\ IF mode = "plain"
               THEN \E q \in ListsOfSet(ingredients) : ret' = Returned(q)
               ELSE ret' = Returned(ingredients)
            /\ UNCHANGED <<oi, pi, ingredients>>
       ELSE LET output == result.v[oi] IN
            IF output.t # "dict"
            THEN /\ pc' = "raised" /\ ret' = Raised("AttributeError")
                 /\ UNCHANGED <<oi, pi, ingredients>>
            ELSE LET items == Iterate(PredictionsOf(output)) IN
                 IF items.exc # "none"
                 THEN /\ pc' = "raised" /\ ret' = items
                      /\ UNCHANGED <<oi, pi, ingredients>>
                 ELSE IF pi > Len(items.value)
                 THEN /\ oi' = oi + 1 /\ pi' = 1
                      /\ UNCHANGED <<pc, ret, ingredients>>
                 ELSE LET o == ProcessPrediction(mode, ingredients, items.value[pi],
                                                 confidence_threshold) IN
                      IF o.exc # "none"
                      THEN /\ pc' = "raised" /\ ret' = o
                           /\ UNCHANGED <<oi, pi, ingredients>>
                      ELSE /\ ingredients' = o.value
                           /\ pi' = pi + 1
                           /\ UNCHANGED <<pc, ret, oi>>
    /\ UNCHANGED <<threshold_at_call, confidence_threshold, set_call, mode, attempt, calls, sleeps,
                   responses, result>>
    /\ UNCHANGED <<logicVars, pipelineVars, appVars>>

\* The caller has consumed the outcome; the call's locals are gone.
Finish ==
    /\ pc \in {"returned", "raised"}
    /\ pc' = "idle" /\ mode' = "plain" /\ attempt' = 0 /\ calls' = 0
    /\ sleeps' = <<>> /\ responses' = <<>> /\ result' = PyNone
    /\ oi' = 1 /\ pi' = 1 /\ ingredients' = {} /\ ret' = NoOutcome
    /\ threshold_at_call' = DefaultThreshold
    /\ UNCHANGED <<confidence_threshold, set_call>>
    /\ UNCHANGED <<logicVars, pipelineVars, appVars>>

Next ==
    \/ \E threshold \in ThresholdArgs : SetConfidenceThreshold(threshold)
    \/ \E m \in {"plain", "details"} : Detect(m)
    \/ \E resp \in Responses : RunWorkflowAttempt(resp)
    \/ RunWorkflowSleep
    \/ ExtractStep
    \/ Finish

Spec == Init /\ [][Next]_vars

TypeOKVision ==
    /\ pc \in {"idle", "attempt", "backoff", "extract", "returned", "raised"}
    /\ attempt \in 0..(max_retries - 1)

(***************************************************************************)
(* Claims about the retry loop.                                            *)
(***************************************************************************)
\* The scripted backend, stated on the answers themselves.
IsColdAnswer(resp) == resp = Returned(ColdResult)
IsTransportFailure(resp) == resp.exc # "none"
\* An answer that is not the cold-start signal and whose "message", when
\* there is one, is text.
IsOtherAnswer(resp) ==
    /\ resp.exc = "none"
    /\ resp.value # ColdResult
    /\ resp.value # PyList(<<PyDict("message" :> PyNone)>>)

WorkflowLeft == pc \in {"extract", "returned", "raised"}
ColdPrefix(k) == \A i \in 1..k : IsColdAnswer(responses[i])

\* C1: with max_retries = 3, when the backend answers cold-start on the first
\* k attempts (k in 0..2) and something else on attempt k+1, exactly k+1 remote
\* calls are made, attempt n (0-based) is followed by a sleep of (n+1)*5 s
\* before attempt n+1, and the answer of attempt k+1 is what _run_workflow
\* returns; for k = 2: three calls, sleeps 5 then 10.
C1_ColdThenAnswer ==
    /\ pc = "attempt" => calls = attempt /\ Len(sleeps) = attempt
    /\ pc = "backoff" => calls = attempt + 1 /\ Len(sleeps) = attempt
    /\ \A k \in 0..2 :
         (Len(responses) = k + 1 /\ ColdPrefix(k) /\ IsOtherAnswer(responses[k + 1]))
         => /\ WorkflowLeft
            /\ ret.exc # "TransportError"
            /\ calls = k + 1
            /\ sleeps = [n \in 1..k |-> n * 5]
            /\ result = responses[k + 1].value
            /\ k = 2 => calls = 3 /\ sleeps = <<5, 10>>

C1_Witness ==
    /\ pc = "returned" /\ mode = "plain"
    /\ Len(responses) = 3 /\ ColdPrefix(2)
    /\ responses[3] = Returned(PyList(<<NestedOutput(<<Prediction(10000, LblTomato)>>)>>))
    /\ calls = 3 /\ sleeps = <<5, 10>>
    /\ ret = Returned(<<(<<"t","o","m","a","t","o">>)>>)

RECURSIVE SumSeq(_)
SumSeq(q) == IF q = <<>> THEN 0 ELSE Head(q) + SumSeq(Tail(q))

C10_TransportFailure ==
    /\ \A i \in 1..Len(responses) :
         IsTransportFailure(responses[i])
         => /\ i = Len(responses)
            /\ pc = "raised"
            /\ ret = responses[i]
            /\ calls = i
            /\ Len(sleeps) = i - 1
    /\ \A i \in 1..(Len(responses) - 1) : IsColdAnswer(responses[i])
    /\ pc = "backoff" => IsColdAnswer(responses[Len(responses)])

C10_Witness ==
    /\ pc = "raised" /\ mode = "details"
    /\ Len(responses) = 2 /\ IsColdAnswer(responses[1])
    /\ IsTransportFailure(responses[2])
    /\ ret = Raised("TransportError") /\ calls = 2 /\ sleeps = <<5>>

(***************************************************************************)
(* Claims about extraction and the threshold.                              *)
(***************************************************************************)
Range(q) == {q[i] : i \in DOMAIN q}
Occurrences(q, x) == Cardinality({i \in DOMAIN q : q[i] = x})

\* All predictions of a remote result, output after output.  Used in states
\* where the call has returned, so every output was iterated successfully.
RECURSIVE FlatPredictionsFrom(_, _)
FlatPredictionsFrom(r, i) ==
    IF r.t # "list" \/ i > Len(r.v) THEN <<>>
    ELSE Iterate(PredictionsOf(r.v[i])).value \o FlatPredictionsFrom(r, i + 1)
FlatPredictions(r) == FlatPredictionsFrom(r, 1)

ConfidenceOf(p) == IF "confidence" \in DOMAIN p.v THEN p.v["confidence"].v ELSE 0
LabelOf(p) == IF "class" \in DOMAIN p.v THEN Strip(Lower(p.v["class"].v)) ELSE <<>>
\* The predictions with confidence >= t, in order.
KeptAt(r, t) == SelectSeq(FlatPredictions(r), LAMBDA p : ConfidenceOf(p) >= t)

PlainReturned   == pc = "returned" /\ mode = "plain"
DetailsReturned == pc = "returned" /\ mode = "details"

\* C3 as stated: every prediction with confidence >= t that carries a class
\* contributes its lower-cased, trimmed label to the plain result, and every
\* label of the result comes from a prediction with confidence >= t.
C3_Original ==
    PlainReturned
    => LET kept == KeptAt(result, confidence_threshold) IN
       /\ \A i \in DOMAIN kept :
            "class" \in DOMAIN kept[i].v => LabelOf(kept[i]) \in Range(ret.value)
       /\ \A l \in Range(ret.value) : \E i \in DOMAIN kept : LabelOf(kept[i]) = l

\* C3 (amended): a prediction is kept by detect_ingredients iff its confidence
\* >= t (equal included, below excluded); every kept prediction whose
\* lower-cased, trimmed label is not empty contributes that label to the plain
\* result, a kept prediction whose label is empty or absent contributes
\* nothing, and no other label appears.
C3_ConfidenceFilter ==
    PlainReturned
    => LET kept == KeptAt(result, confidence_threshold) IN
       /\ \A i \in DOMAIN kept :
            LabelOf(kept[i]) # <<>> => LabelOf(kept[i]) \in Range(ret.value)
       /\ \A l \in Range(ret.value) :
            l # <<>> /\ \E i \in DOMAIN kept : LabelOf(kept[i]) = l

C3_Witness ==
    /\ PlainReturned
    /\ confidence_threshold = 5000
    /\ result = PyList(<<NestedOutput(<<Prediction(5000, LblTomato2),
                                        Prediction(4996, LblEgg)>>)>>)
    /\ ret = Returned(<<(<<"t","o","m","a","t","o">>)>>)

\* C4 as stated: kept predictions (carrying a class) whose labels are equal
\* after lower-casing and trimming are exactly one entry of the plain result;
\* the detailed result has one entry per kept prediction.
C4_Original ==
    /\ PlainReturned
       => \A i \in DOMAIN KeptAt(result, confidence_threshold) :
            "class" \in DOMAIN KeptAt(result, confidence_threshold)[i].v
            => Occurrences(ret.value, LabelOf(KeptAt(result, confidence_threshold)[i])) = 1
    /\ DetailsReturned
       => /\ Len(ret.value) = Len(KeptAt(result, confidence_threshold))
          /\ \A i \in DOMAIN ret.value :
               ret.value[i].name = LabelOf(KeptAt(result, confidence_threshold)[i])

\* C4 (amended): kept predictions whose labels are equal and not empty after
\* lower-casing and trimming are exactly one entry of the plain result (kept
\* predictions with an empty label are no entry at all); the detailed result
\* has one entry per kept prediction, in order, duplicates and empty names
\* included.
C4_Dedup ==
    /\ PlainReturned
       => \A i \in DOMAIN KeptAt(result, confidence_threshold) :
            LET l == LabelOf(KeptAt(result, confidence_threshold)[i]) IN
            Occurrences(ret.value, l) = IF l = <<>> THEN 0 ELSE 1
    /\ DetailsReturned
       => /\ Len(ret.value) = Len(KeptAt(result, confidence_threshold))
          /\ \A i \in DOMAIN ret.value :
               ret.value[i].name = LabelOf(KeptAt(result, confidence_threshold)[i])

\* "Tomato" and " tomato", both kept: two entries in detail, both named "tomato".
C4_Witness ==
    /\ DetailsReturned
    /\ result = PyList(<<NestedOutput(<<Prediction(10000, LblTomato),
                                        Prediction(5000, LblTomato2)>>)>>)
    /\ Len(ret.value) = 2
    /\ ret.value[1].name = <<"t","o","m","a","t","o">>
    /\ ret.value[2].name = <<"t","o","m","a","t","o">>

\* The threshold is a value of [0.0, 1.0].
C5_Range == confidence_threshold \in 0..10000

\* The stored threshold is the last accepted argument (0.5 before any call)
\* and a returned detect call has filtered with it.
C5_Observed ==
    /\ set_call.exc = "none" => confidence_threshold = set_call.arg
    /\ set_call.exc = "nocall" => confidence_threshold = 5000
    /\ PlainReturned
       => Range(ret.value) = {LabelOf(KeptAt(result, confidence_threshold)[i]) :
                                 i \in DOMAIN KeptAt(result, confidence_threshold)} \ {<<>>}
    /\ DetailsReturned => Len(ret.value) = Len(KeptAt(result, confidence_threshold))

\* What a step does to the threshold: only set_confidence_threshold changes
\* it, and only to an argument within range.
C5_Step ==
    IF set_call' # set_call
    THEN IF set_call'.arg < 0 \/ set_call'.arg > 10000
         THEN set_call'.exc = "ValueError" /\ confidence_threshold' = confidence_threshold
         ELSE set_call'.exc = "none" /\ confidence_threshold' = set_call'.arg
    ELSE confidence_threshold' = confidence_threshold

\* C5: set_confidence_threshold(t) raises a range error and leaves the
\* threshold as it was when t < 0.0 or t > 1.0; for 0.0 <= t <= 1.0 (both ends
\* included) it succeeds, the threshold is t and the next detect call filters
\* with it.  Starting from 0.5 the threshold is always within [0.0, 1.0].
C5_Threshold == [](C5_Range /\ C5_Observed) /\ [][C5_Step]_vars

\* 0.0 was accepted, 1.1 was then rejected, and the detect call that followed
\* kept a prediction without confidence (0 >= 0.0) next to one at 0.4996.
C5_Witness ==
    /\ PlainReturned
    /\ set_call = [arg |-> 11000, exc |-> "ValueError"]
    /\ confidence_threshold = 0
    /\ result = PyList(<<NestedOutput(<<Prediction(4996, LblTomato),
                                        PyDict(("class" :> PyStr(LblEgg)) @@ ("x" :> PyNum(7))
                                               @@ ("width" :> PyNum(3)))>>)>>)
    /\ Range(ret.value) = {<<"t","o","m","a","t","o">>, <<"e","g","g">>}

(***************************************************************************)
(* logic.py: text constants.                                               *)
(***************************************************************************)
S_diabetes == <<"d","i","a","b","e","t","e","s">>
S_hypertension == <<"h","y","p","e","r","t","e","n","s","i","o","n">>
S_muscle_build == <<"m","u","s","c","l","e","_","b","u","i","l","d">>
S_heart_disease == <<"h","e","a","r","t","_","d","i","s","e","a","s","e">>
S_weight_loss == <<"w","e","i","g","h","t","_","l","o","s","s">>
S_kidney_disease == <<"k","i","d","n","e","y","_","d","i","s","e","a","s","e">>
S_sugar == <<"s","u","g","a","r">>
S_fiber == <<"f","i","b","e","r">>
S_carbohydrates == <<"c","a","r","b","o","h","y","d","r","a","t","e","s">>
S_sodium == <<"s","o","d","i","u","m">>
S_saturated_fat == <<"s","a","t","u","r","a","t","e","d"," ","f","a","t">>
S_protein == <<"p","r","o","t","e","i","n">>
S_cholesterol == <<"c","h","o","l","e","s","t","e","r","o","l">>
S_calories == <<"c","a","l","o","r","i","e","s">>
S_colon == <<":"," ">>
S_exceeds == <<"g"," ","e","x","c","e","e","d","s"," ","l","i","m","i","t"," ","o","f"," ">>
S_below == <<"g"," ","b","e","l","o","w"," ","m","i","n","i","m","u","m"," ","o","f"," ">>
S_g == <<"g">>
S_comma == <<",">>

\* CONDITION_MAPPING (lines 37-71)
CONDITION_MAPPING ==
    (S_diabetes :> (("maxSugar" :> PyNum(5)) @@ ("minFiber" :> PyNum(5))
                    @@ ("maxCarbs" :> PyNum(45))))
    @@ (S_hypertension :> (("maxSodium" :> PyNum(400)) @@ ("maxSaturatedFat" :> PyNum(5))))
    @@ (S_muscle_build :> (("minProtein" :> PyNum(30)) @@ ("minCalories" :> PyNum(300))))
    @@ (S_heart_disease :> (("maxCholesterol" :> PyNum(50)) @@ ("maxSaturatedFat" :> PyNum(3))
                            @@ ("maxSodium" :> PyNum(400))))
    @@ (S_weight_loss :> (("maxCalories" :> PyNum(400)) @@ ("minProtein" :> PyNum(20))
                          @@ ("minFiber" :> PyNum(5))))
    @@ (S_kidney_disease :> (("maxProtein" :> PyNum(15)) @@ ("maxSodium" :> PyNum(300))))

\* filter_nutrient_mapping (lines 109-119), in the dict's order
filter_nutrient_mapping ==
    << [key |-> "maxSugar",        nutrient |-> S_sugar,         direction |-> "high"],
       [key |-> "minFiber",        nutrient |-> S_fiber,         direction |-> "low"],
       [key |-> "maxCarbs",        nutrient |-> S_carbohydrates, direction |-> "high"],
       [key |-> "maxSodium",       nutrient |-> S_sodium,        direction |-> "high"],
       [key |-> "maxSaturatedFat", nutrient |-> S_saturated_fat, direction |-> "high"],
       [key |-> "minProtein",      nutrient |-> S_protein,       direction |-> "low"],
       [key |-> "maxCholesterol",  nutrient |-> S_cholesterol,   direction |-> "high"],
       [key |-> "maxCalories",     nutrient |-> S_calories,      direction |-> "high"],
       [key |-> "minCalories",     nutrient |-> S_calories,      direction |-> "low"] >>

(***************************************************************************)
(* build_recipe_filters (lines 30-87)                                      *)
(***************************************************************************)
\* Variant: the table outlives the call and its entry is handed out itself,
\* so the bounds are whatever the caller left in the FilterSet it holds.
ConditionBounds_Shared(condition) ==
    IF condition.t = "str" /\ condition.v \in DOMAIN CONDITION_MAPPING
    THEN IF filters.exc = "none"
         THEN [k \in DOMAIN filters.value.v \ {"diet", "intolerances"} |-> filters.value.v[k]]
         ELSE CONDITION_MAPPING[condition.v]
    ELSE <<>>

\* Variant: the table as the docstring quotes it, diabetes without maxCarbs.
ConditionBounds_Docstring(condition) ==
    IF condition.t = "str" /\ condition.v \in DOMAIN CONDITION_MAPPING
    THEN IF condition.v = S_diabetes
         THEN ("maxSugar" :> PyNum(5)) @@ ("minFiber" :> PyNum(5))
         ELSE CONDITION_MAPPING[condition.v]
    ELSE <<>>

\* Variant: the condition is looked up without regard to case.
ConditionBounds_AnyCase(condition) ==
    IF condition.t = "str" /\ Lower(condition.v) \in DOMAIN CONDITION_MAPPING
    THEN CONDITION_MAPPING[Lower(condition.v)]
    ELSE <<>>

\* Lines 73-74: `if condition in CONDITION_MAPPING: filters.update(...)`,
\* for a hashable condition.
ConditionBounds(condition) ==
    IF condition.t = "str" /\ condition.v \in DOMAIN CONDITION_MAPPING
    THEN CONDITION_MAPPING[condition.v]
    ELSE <<>>

\* Line 80: ','.join(intolerances)
JoinIntolerances(intolerances) ==
    LET items == Iterate(intolerances) IN
    IF items.exc # "none" THEN Raised("TypeError")
    ELSE IF \E i \in DOMAIN items.value : items.value[i].t # "str" THEN Raised("TypeError")
    ELSE Returned(PyStr(Join(S_comma, [i \in DOMAIN items.value |-> items.value[i].v])))

build_recipe_filters(profile) ==
    IF profile.t # "dict" THEN Raised("AttributeError")
    ELSE LET health_constraints == Get(profile, "health_constraints", EmptyDict) IN
    IF health_constraints.t # "dict" THEN Raised("AttributeError")
    ELSE LET condition    == Get(health_constraints, "condition", PyNone)
             intolerances == Get(health_constraints, "intolerances", EmptyList)
             diet         == Get(health_constraints, "diet", PyNone)
         IN
    IF condition.t \in {"list", "dict"} THEN Raised("TypeError")     \* unhashable
    ELSE LET joined == IF Truthy(intolerances) THEN JoinIntolerances(intolerances)
                       ELSE Returned(PyNone)
         IN
    IF joined.exc # "none" THEN joined
    ELSE Returned(PyDict(
            (IF Truthy(diet) THEN "diet" :> diet ELSE <<>>)
            @@ (IF Truthy(intolerances) THEN "intolerances" :> joined.value ELSE <<>>)
            @@ ConditionBounds(condition)))

(***************************************************************************)
(* validate_recipe_for_user (lines 102-134)                                *)
(***************************************************************************)
\* Line 106: {n['name'].lower(): n['amount'] for n in ...}; a later entry of
\* the same name replaces an earlier one.
RECURSIVE NutrientsDict(_, _)
NutrientsDict(items, acc) ==
    IF items = <<>> THEN Returned(acc)
    ELSE LET n == Head(items) IN
         IF n.t # "dict" THEN Raised("TypeError")
         ELSE IF "name" \notin DOMAIN n.v THEN Raised("KeyError")
         ELSE IF n.v["name"].t # "str" THEN Raised("AttributeError")
         ELSE IF "amount" \notin DOMAIN n.v THEN Raised("KeyError")
         ELSE NutrientsDict(Tail(items),
                            (Lower(n.v["name"].v) :> n.v["amount"]) @@ acc)

\* Variant: a nutrient without a reading counts as a very large amount.
ActualAmount_MissingIsLarge(nutrients, nutrient_name) ==
    IF nutrient_name \in DOMAIN nutrients THEN nutrients[nutrient_name] ELSE PyNum(100000)

\* Line 124: actual = nutrients.get(nutrient_name, 0)
ActualAmount(nutrients, nutrient_name) ==
    IF nutrient_name \in DOMAIN nutrients THEN nutrients[nutrient_name] ELSE PyNum(0)

\* Variant: an amount equal to its bound counts as a violation.
Violates_Inclusive(direction, actual, limit) ==
    \/ direction = "high" /\ actual >= limit
    \/ direction = "low" /\ actual <= limit

\* Lines 126 and 128
Violates(direction, actual, limit) ==
    \/ direction = "high" /\ actual > limit
    \/ direction = "low" /\ actual < limit

\* Lines 127 and 129: the f-strings
WarningText(nutrient_name, direction, actual, limit) ==
    Title(nutrient_name) \o S_colon \o Decimal(actual)
    \o (IF direction = "high" THEN S_exceeds ELSE S_below) \o Decimal(limit) \o S_g

\* Lines 121-129: the loop over filter_nutrient_mapping from entry i on.
RECURSIVE CheckFilters(_, _, _, _)
CheckFilters(i, fs, nutrients, warnings) ==
    IF i > Len(filter_nutrient_mapping) THEN Returned(warnings)
    ELSE LET e == filter_nutrient_mapping[i] IN
         IF e.key \notin DOMAIN fs.v THEN CheckFilters(i + 1, fs, nutrients, warnings)
         ELSE LET limit  == fs.v[e.key]
                  actual == ActualAmount(nutrients, e.nutrient)
              IN
              IF actual.t # "num" \/ limit.t # "num" THEN Raised("TypeError")
              ELSE IF Violates(e.direction, actual.v, limit.v)
              THEN CheckFilters(i + 1, fs, nutrients,
                       Append(warnings,
                              WarningText(e.nutrient, e.direction, actual.v, limit.v)))
              ELSE CheckFilters(i + 1, fs, nutrients, warnings)

validate_recipe_for_user(r, profile) ==
    LET fs == build_recipe_filters(profile) IN
    IF fs.exc # "none" THEN fs
    ELSE IF r.t # "dict" THEN Raised("AttributeError")
    ELSE LET nutrition == Get(r, "nutrition", EmptyDict) IN
    IF nutrition.t # "dict" THEN Raised("AttributeError")
    ELSE LET items == Iterate(Get(nutrition, "nutrients", EmptyList)) IN
    IF items.exc # "none" THEN items
    ELSE LET nutrients == NutrientsDict(items.value, <<>>) IN
    IF nutrients.exc # "none" THEN nutrients
    ELSE LET checked == CheckFilters(1, fs.value, nutrients.value, <<>>) IN
    IF checked.exc # "none" THEN checked
    ELSE Returned([valid |-> Len(checked.value) = 0, warnings |-> checked.value])

(***************************************************************************)
(* Inputs of the logic specification.                                      *)
(***************************************************************************)
S_Diabetes == <<"D","i","a","b","e","t","e","s">>
S_keto == <<"k","e","t","o">>
S_dairy == <<"d","a","i","r","y">>
S_gluten == <<"g","l","u","t","e","n">>
S_vegan == <<"v","e","g","a","n">>
S_Sugar == <<"S","u","g","a","r">>
S_Fiber == <<"F","i","b","e","r">>
S_Carbohydrates == <<"C","a","r","b","o","h","y","d","r","a","t","e","s">>
S_Sodium == <<"S","o","d","i","u","m">>
S_Saturated_Fat == <<"S","a","t","u","r","a","t","e","d"," ","F","a","t">>
S_Protein == <<"P","r","o","t","e","i","n">>
S_Cholesterol == <<"C","h","o","l","e","s","t","e","r","o","l">>
S_Calories == <<"C","a","l","o","r","i","e","s">>
S_SODIUM == <<"S","O","D","I","U","M">>

TableConditions ==
    {S_diabetes, S_hypertension, S_muscle_build, S_heart_disease, S_weight_loss,
     S_kidney_disease}

\* The "condition" entry: absent, or one of these values.
ConditionEntries ==
    {<<>>} \cup {"condition" :> PyStr(c) : c \in TableConditions}
    \cup {"condition" :> PyNone, "condition" :> PyStr(<<>>), "condition" :> PyStr(S_keto),
          "condition" :> PyStr(S_Diabetes), "condition" :> PyNum(5)}

IntoleranceEntries ==
    {<<>>, "intolerances" :> EmptyList,
     "intolerances" :> PyList(<<PyStr(S_dairy)>>),
     "intolerances" :> PyList(<<PyStr(S_dairy), PyStr(S_gluten)>>),
     "intolerances" :> PyList(<<PyStr(S_gluten), PyStr(S_dairy)>>)}

DietEntries ==
    {<<>>, "diet" :> PyNone, "diet" :> PyStr(<<>>), "diet" :> PyStr(S_vegan)}

Profile(c, i, d) == PyDict("health_constraints" :> PyDict(c @@ i @@ d))

UserProfiles ==
    {Profile(c, i, d) : c \in ConditionEntries, i \in IntoleranceEntries, d \in DietEntries}
    \cup {EmptyDict, PyDict("health_constraints" :> PyNone)}

\* Profiles that carry a condition only: the six of the table, one outside
\* it, and none.
ConditionProfiles ==
    {Profile("condition" :> PyStr(c), <<>>, <<>>) : c \in TableConditions \cup {S_keto}}
    \cup {Profile(<<>>, <<>>, <<>>), EmptyDict}

Nutrient(name, amount) ==
    PyDict(("name" :> PyStr(name)) @@ ("amount" :> PyNum(amount)) @@ ("unit" :> PyStr(S_g)))

NutrientEntries ==
    { Nutrient(S_Sugar, 5), Nutrient(S_Sugar, 6),
      Nutrient(S_Fiber, 4),
      Nutrient(S_Carbohydrates, 46),
      Nutrient(S_Sodium, 300), Nutrient(S_SODIUM, 401),
      Nutrient(S_Saturated_Fat, 3),
      Nutrient(S_Protein, 16), Nutrient(S_Protein, 30),
      Nutrient(S_Cholesterol, 51),
      Nutrient(S_Calories, 300), Nutrient(S_calories, 401) }

RecipeOf(q) == PyDict("nutrition" :> PyDict("nutrients" :> PyList(q)))

\* sugar=10, fiber=2, carbohydrates=40
ExampleRecipe ==
    RecipeOf(<<Nutrient(S_sugar, 10), Nutrient(S_fiber, 2), Nutrient(S_carbohydrates, 40)>>)

\* Recipes with parts absent, and one in the shape _format_recipe returns.
PartialRecipes ==
    { EmptyDict,
      PyDict("nutrition" :> EmptyDict),
      PyDict("nutrition" :> PyDict("sugar" :> PyDict(("amount" :> PyNum(10))
                                                       @@ ("unit" :> PyStr(S_g))))),
      RecipeOf(<<PyDict("amount" :> PyNum(10))>>),
      RecipeOf(<<PyDict("name" :> PyStr(S_Sugar))>>),
      RecipeOf(<<PyDict(("name" :> PyStr(S_Protein)) @@ ("amount" :> PyNone))>>) }

Recipes ==
    {RecipeOf(q) : q \in SeqsUpTo(NutrientEntries, MaxNutrients)}
    \cup {ExampleRecipe} \cup PartialRecipes

FewRecipes == {ExampleRecipe, EmptyDict, RecipeOf(<<Nutrient(S_Protein, 16)>>)}

(***************************************************************************)
(* Mapper and validator: every state holds one (profile, recipe) input and *)
(* the outcomes of the calls made on it so far.                            *)
(***************************************************************************)
InitLogic ==
    /\ confidence_threshold = DefaultThreshold
    /\ set_call = NoCall
    /\ IdleCall
    /\ \E p \in UserProfiles, r \in Recipes :
         /\ p \in ConditionProfiles \/ r \in FewRecipes
         /\ user_profile = p
         /\ recipe = r
    /\ filters = NoOutcome
    /\ validation = NoOutcome
    /\ NoPipeline
    /\ NoApp

\* app.py line 211: filters = build_recipe_filters(user_profile)
BuildRecipeFilters ==
    /\ filters' = build_recipe_filters(user_profile)
    /\ UNCHANGED <<user_profile, recipe, validation>>
    /\ UNCHANGED <<visionVars, pipelineVars, appVars>>

\* validate_recipe_for_user(recipe, user_profile)
ValidateRecipeForUser ==
    /\ validation' = validate_recipe_for_user(recipe, user_profile)
    /\ UNCHANGED <<user_profile, recipe, filters>>
    /\ UNCHANGED <<visionVars, pipelineVars, appVars>>

NextLogic ==
    \/ BuildRecipeFilters
    \/ ValidateRecipeForUser

SpecLogic == InitLogic /\ [][NextLogic]_vars

TypeOKLogic ==
    /\ filters.exc \in {"pending", "none", "AttributeError", "TypeError"}
    /\ validation.exc \in {"pending", "none", "AttributeError", "TypeError", "KeyError"}

(***************************************************************************)
(* Claims about the mapper and the validator.                              *)
(***************************************************************************)
\* The condition table as the design states it.
ExpectedBounds ==
    (S_diabetes :> [maxSugar |-> 5, minFiber |-> 5, maxCarbs |-> 45])
    @@ (S_hypertension :> [maxSodium |-> 400, maxSaturatedFat |-> 5])
    @@ (S_muscle_build :> [minProtein |-> 30, minCalories |-> 300])
    @@ (S_heart_disease :> [maxCholesterol |-> 50, maxSaturatedFat |-> 3, maxSodium |-> 400])
    @@ (S_weight_loss :> [maxCalories |-> 400, minProtein |-> 20, minFiber |-> 5])
    @@ (S_kidney_disease :> [maxProtein |-> 15, maxSodium |-> 300])

\* The comma-joined form of each intolerance list of the inputs.
ExpectedIntolerances ==
    (<<PyStr(S_dairy)>> :> <<"d","a","i","r","y">>)
    @@ (<<PyStr(S_dairy), PyStr(S_gluten)>> :> <<"d","a","i","r","y",",","g","l","u","t","e","n">>)
    @@ (<<PyStr(S_gluten), PyStr(S_dairy)>> :> <<"g","l","u","t","e","n",",","d","a","i","r","y">>)

SuppliesIntolerances(i) == "intolerances" \in DOMAIN i /\ i["intolerances"].v # <<>>
SuppliesDiet(d) == "diet" \in DOMAIN d /\ d["diet"] = PyStr(S_vegan)

\* The intolerances and diet keys are present iff supplied, with their values.
ExtrasAsSupplied(f, i, d) ==
    /\ "intolerances" \in DOMAIN f <=> SuppliesIntolerances(i)
    /\ SuppliesIntolerances(i)
       => f["intolerances"] = PyStr(ExpectedIntolerances[i["intolerances"].v])
    /\ "diet" \in DOMAIN f <=> SuppliesDiet(d)
    /\ SuppliesDiet(d) => f["diet"] = PyStr(S_vegan)

CheckedBounds ==
    << [key |-> "maxSugar",        nutrient |-> S_sugar,         title |-> S_Sugar,         max |-> TRUE],
       [key |-> "minFiber",        nutrient |-> S_fiber,         title |-> S_Fiber,         max |-> FALSE],
       [key |-> "maxCarbs",        nutrient |-> S_carbohydrates, title |-> S_Carbohydrates, max |-> TRUE],
       [key |-> "maxSodium",       nutrient |-> S_sodium,        title |-> S_Sodium,        max |-> TRUE],
       [key |-> "maxSaturatedFat", nutrient |-> S_saturated_fat, title |-> S_Saturated_Fat, max |-> TRUE],
       [key |-> "minProtein",      nutrient |-> S_protein,       title |-> S_Protein,       max |-> FALSE],
       [key |-> "maxCholesterol",  nutrient |-> S_cholesterol,   title |-> S_Cholesterol,   max |-> TRUE],
       [key |-> "maxCalories",     nutrient |-> S_calories,      title |-> S_Calories,      max |-> TRUE],
       [key |-> "minCalories",     nutrient |-> S_calories,      title |-> S_Calories,      max |-> FALSE] >>

\* The bounds in force for a profile, by the table.
BoundsFor(profile) ==
    IF /\ "health_constraints" \in DOMAIN profile.v
       /\ "condition" \in DOMAIN profile.v["health_constraints"].v
       /\ profile.v["health_constraints"].v["condition"].t = "str"
       /\ profile.v["health_constraints"].v["condition"].v \in TableConditions
    THEN ExpectedBounds[profile.v["health_constraints"].v["condition"].v]
    ELSE <<>>

\* The nutrient list of a recipe, and the readings of one nutrient in it.
ReadingsOf(r) ==
    IF "nutrition" \in DOMAIN r.v /\ "nutrients" \in DOMAIN r.v["nutrition"].v
    THEN r.v["nutrition"].v["nutrients"].v ELSE <<>>
ReadingsFor(r, nutrient) ==
    SelectSeq(ReadingsOf(r), LAMBDA n : Lower(n.v["name"].v) = nutrient)
HasReading(r, nutrient) == ReadingsFor(r, nutrient) # <<>>
\* the last reading wins; no reading counts as 0
AmountOf(r, nutrient) ==
    IF HasReading(r, nutrient)
    THEN ReadingsFor(r, nutrient)[Len(ReadingsFor(r, nutrient))].v["amount"].v
    ELSE 0

ExceedsText(b, actual, bound) ==
    b.title \o S_colon \o Decimal(actual) \o S_exceeds \o Decimal(bound) \o S_g
BelowText(b, actual, bound) ==
    b.title \o S_colon \o Decimal(actual) \o S_below \o Decimal(bound) \o S_g

IsViolated(b, r, profile) ==
    /\ b.key \in DOMAIN BoundsFor(profile)
    /\ IF b.max THEN AmountOf(r, b.nutrient) > BoundsFor(profile)[b.key]
       ELSE AmountOf(r, b.nutrient) < BoundsFor(profile)[b.key]

ExpectedWarnings(r, profile) ==
    LET violated == SelectSeq(CheckedBounds, LAMBDA b : IsViolated(b, r, profile)) IN
    [i \in DOMAIN violated |->
        IF violated[i].max
        THEN ExceedsText(violated[i], AmountOf(r, violated[i].nutrient),
                         BoundsFor(profile)[violated[i].key])
        ELSE BelowText(violated[i], AmountOf(r, violated[i].nutrient),
                       BoundsFor(profile)[violated[i].key])]

\* C8: validate_recipe_for_user returns exactly one warning per checked bound
\* that is violated (max*: actual > bound, min*: actual < bound, equality is
\* never a violation) and valid is true iff there is no warning.  Diabetes
\* against sugar=10, fiber=2, carbohydrates=40: valid=false, a sugar and a
\* fiber warning, none for carbohydrates.
C8_Validation ==
    /\ validation.exc = "none"
       => /\ validation.value.valid <=> validation.value.warnings = <<>>
          /\ validation.value.warnings = ExpectedWarnings(recipe, user_profile)
    /\ ( /\ user_profile = Profile("condition" :> PyStr(S_diabetes), <<>>, <<>>)
         /\ recipe = ExampleRecipe
         /\ validation.exc # "pending" )
       => validation = Returned([valid |-> FALSE,
                                 warnings |-> <<<<"S","u","g","a","r",":"," ","1","0","g"," ","e","x","c","e","e","d","s"," ","l","i","m","i","t"," ","o","f"," ","5","g">>,
                                                <<"F","i","b","e","r",":"," ","2","g"," ","b","e","l","o","w"," ","m","i","n","i","m","u","m"," ","o","f"," ","5","g">>>>])

C8_Witness ==
    /\ user_profile = Profile("condition" :> PyStr(S_diabetes), <<>>, <<>>)
    /\ recipe = ExampleRecipe
    /\ validation.exc = "none"
    /\ ~validation.value.valid
    /\ Len(validation.value.warnings) = 2

\* C9: a nutrient without a reading in the recipe counts as amount 0: every
\* min* bound of the profile's FilterSet on it gives a warning with actual 0,
\* and no max* bound on it gives a warning; muscle_build against a recipe
\* without protein: "Protein: 0g below minimum of 30g".
C9_MissingReading ==
    validation.exc = "none"
    => \A i \in DOMAIN CheckedBounds :
         LET b == CheckedBounds[i] IN
         (b.key \in DOMAIN BoundsFor(user_profile) /\ ~HasReading(recipe, b.nutrient))
         => IF b.max
            THEN \A w \in Range(validation.value.warnings) :
                    SubSeq(w, 1, Len(b.title) + 2) # b.title \o S_colon
            ELSE BelowText(b, 0, BoundsFor(user_profile)[b.key])
                    \in Range(validation.value.warnings)

C9_Witness ==
    /\ user_profile = Profile("condition" :> PyStr(S_muscle_build), <<>>, <<>>)
    /\ recipe = RecipeOf(<<Nutrient(S_Calories, 300)>>)
    /\ validation = Returned([valid |-> FALSE,
                              warnings |-> <<<<"P","r","o","t","e","i","n",":"," ","0","g"," ","b","e","l","o","w"," ","m","i","n","i","m","u","m"," ","o","f"," ","3","0","g">>>>])

(***************************************************************************)
(* Claims about remote results of unexpected shape.                        *)
(***************************************************************************)
\* The shapes the claim lists: not a list; a list whose elements are not
\* mappings; an output without "predictions"; a "predictions" value that is
\* null or neither list nor mapping; prediction entries that are not mappings
\* or lack "confidence" / "class".
UnexpectedShapes ==
    { PyNone,
      EmptyDict,
      PyList(<<PyNone>>),
      PyList(<<PyDict("message" :> PyStr(MsgReady))>>),
      PyList(<<PyDict("predictions" :> PyNone)>>),
      PyList(<<PyDict("predictions" :> PyStr(LblEgg))>>),
      PyList(<<FlatOutput(<<PyNone>>)>>),
      PyList(<<NestedOutput(<<PyDict("confidence" :> PyNum(5000))>>)>>),
      PyList(<<NestedOutput(<<PyDict(("class" :> PyStr(LblEgg)) @@ ("x" :> PyNum(7))
                                     @@ ("width" :> PyNum(3)))>>)>>) }

\* C11: for every remote result of unexpected shape, detect_ingredients and
\* detect_ingredients_with_details return an empty or partial result and
\* never raise.
C11_NeverRaises ==
    (WorkflowLeft /\ result \in UnexpectedShapes /\ responses[Len(responses)].exc = "none")
    => pc # "raised"

(***************************************************************************)
(* Claims about the validator on data with absent parts and on the bounds  *)
(* the mapper emits.                                                       *)
(***************************************************************************)
\* Ordinary recipes and profiles in which a key is missing.
AbsentPartRecipes ==
    { EmptyDict,
      PyDict("nutrition" :> EmptyDict),
      RecipeOf(<<PyDict("amount" :> PyNum(10))>>),
      RecipeOf(<<PyDict("name" :> PyStr(S_Sugar))>>) }
AbsentPartProfiles ==
    {EmptyDict, Profile(<<>>, <<>>, <<>>)}
    \cup {Profile("condition" :> PyStr(c), <<>>, <<>>) : c \in TableConditions}

\* C14: validate_recipe_for_user never raises for a recipe and a profile
\* built from mappings in which any key may be missing (no 'nutrition', no
\* 'nutrients', a nutrient entry without 'name' or without 'amount', no
\* 'health_constraints', no 'condition'): it returns a ValidationResult.
C14_NeverRaises ==
    ( /\ recipe \in AbsentPartRecipes
      /\ user_profile \in AbsentPartProfiles
      /\ validation.exc # "pending" )
    => /\ validation.exc = "none"
       /\ validation.value.valid \in BOOLEAN

\* Every bound key the condition table emits, with the nutrient it bounds.
EmittedBounds ==
    CheckedBounds
    \o << [key |-> "maxProtein", nutrient |-> S_protein, title |-> S_Protein, max |-> TRUE] >>

\* Every nutrient entry of the recipe carries a name and a numeric amount.
WellFormedReadings(r) ==
    \A i \in DOMAIN ReadingsOf(r) :
      LET n == ReadingsOf(r)[i] IN
      /\ n.t = "dict"
      /\ {"name", "amount"} \subseteq DOMAIN n.v
      /\ n.v["name"].t = "str"
      /\ n.v["amount"].t = "num"

\* C15: every nutrient bound that build_recipe_filters emits for a profile is
\* consumed by validate_recipe_for_user: for each of the six conditions and
\* each bound key of its FilterSet (maxProtein of kidney_disease included), a
\* recipe whose amount of that nutrient violates the bound is reported with
\* valid = false and a warning for that bound.
C15_EveryBoundConsumed ==
    (validation.exc = "none" /\ WellFormedReadings(recipe))
    => \A i \in DOMAIN EmittedBounds :
         LET b == EmittedBounds[i] IN
         IsViolated(b, recipe, user_profile)
         => /\ ~validation.value.valid
            /\ \E w \in Range(validation.value.warnings) :
                 w = IF b.max
                     THEN ExceedsText(b, AmountOf(recipe, b.nutrient),
                                      BoundsFor(user_profile)[b.key])
                     ELSE BelowText(b, AmountOf(recipe, b.nutrient),
                                    BoundsFor(user_profile)[b.key])

(***************************************************************************)
(* RecipeService (recipe_service.py): search_recipes and _format_recipe.   *)
(***************************************************************************)
MaxBuildCalls == 2  \* most build_recipe_filters calls logged for one profile

\* An exception together with its str(e).
RaisedMsg(e, msg) == [exc |-> e, msg |-> msg]

\* str(e) of the requests.RequestException of a failed round trip.
S_refused == <<"r","e","f","u","s","e","d">>
\* Line 80: f"Spoonacular API error: {str(e)}"
S_SpoonacularError == <<"S","p","o","o","n","a","c","u","l","a","r"," ","A","P","I"," ","e","r","r","o","r",":"," ">>

S_Fat == <<"F","a","t">>
S_fat == <<"f","a","t">>
S_tomato == <<"t","o","m","a","t","o">>
S_Soup == <<"S","o","u","p">>
S_ellipsis == <<".",".",".">>
S_sort == <<"m","a","x","-","u","s","e","d","-","i","n","g","r","e","d","i","e","n","t","s">>

\* Line 118
key_nutrients ==
    <<S_Calories, S_Protein, S_Carbohydrates, S_Fat, S_Fiber, S_Sugar, S_Sodium>>

\* The key nutrition[name.lower()] gets for each lower-cased key nutrient.
NutritionKey ==
    (S_calories :> "calories") @@ (S_protein :> "protein")
    @@ (S_carbohydrates :> "carbohydrates") @@ (S_fat :> "fat")
    @@ (S_fiber :> "fiber") @@ (S_sugar :> "sugar") @@ (S_sodium :> "sodium")

\* Lines 120-125: the loop over nutrients_list; a later entry of the same
\* name replaces an earlier one.
RECURSIVE FormatNutrition(_, _)
FormatNutrition(items, nutrition) ==
    IF items = <<>> THEN Returned(PyDict(nutrition))
    ELSE LET nutrient == Head(items) IN
         IF nutrient.t # "dict" THEN Raised("AttributeError")
         ELSE LET name == Get(nutrient, "name", PyNone) IN
              IF ~(name.t = "str" /\ name.v \in Range(key_nutrients))
              THEN FormatNutrition(Tail(items), nutrition)
              ELSE IF {"amount", "unit"} \subseteq DOMAIN nutrient.v
              THEN FormatNutrition(Tail(items),
                       (NutritionKey[Lower(name.v)]
                           :> PyDict(("amount" :> nutrient.v["amount"])
                                     @@ ("unit" :> nutrient.v["unit"])))
                       @@ nutrition)
              ELSE Raised("KeyError")

\* Lines 128-135: [ing.get("name", "") for ing in raw_recipe.get(key, [])]
IngredientNames(raw_recipe, key) ==
    LET items == Iterate(Get(raw_recipe, key, EmptyList)) IN
    IF items.exc # "none" THEN items
    ELSE IF \E i \in DOMAIN items.value : items.value[i].t # "dict"
    THEN Raised("AttributeError")
    ELSE Returned(PyList([i \in DOMAIN items.value |->
                              Get(items.value[i], "name", PyStr(<<>>))]))

\* Line 144: raw.get("summary", "")[:200] + "..." if raw.get("summary") else ""
Summary(raw_recipe) ==
    LET summary == Get(raw_recipe, "summary", PyNone) IN
    IF ~Truthy(summary) THEN Returned(PyStr(<<>>))
    ELSE IF summary.t # "str" THEN Raised("TypeError")
    ELSE Returned(PyStr(SubSeq(summary.v, 1, IF Len(summary.v) < 200 THEN Len(summary.v)
                                              ELSE 200) \o S_ellipsis))

\* _format_recipe(raw_recipe), lines 106-151
format_recipe(raw_recipe) ==
    IF raw_recipe.t # "dict" THEN Raised("AttributeError")
    ELSE LET raw_nutrition == Get(raw_recipe, "nutrition", EmptyDict) IN
    IF raw_nutrition.t # "dict" THEN Raised("AttributeError")
    ELSE LET nutrients_list == Iterate(Get(raw_nutrition, "nutrients", EmptyList)) IN
    IF nutrients_list.exc # "none" THEN nutrients_list
    ELSE LET nutrition == FormatNutrition(nutrients_list.value, <<>>)
             used      == IngredientNames(raw_recipe, "usedIngredients")
             missed    == IngredientNames(raw_recipe, "missedIngredients")
             summary   == Summary(raw_recipe)
         IN
    IF nutrition.exc # "none" THEN nutrition
    ELSE IF used.exc # "none" THEN used
    ELSE IF missed.exc # "none" THEN missed
    ELSE IF summary.exc # "none" THEN summary
    ELSE Returned(PyDict(
            [ id |-> Get(raw_recipe, "id", PyNone),
              title |-> Get(raw_recipe, "title", PyNone),
              image |-> Get(raw_recipe, "image", PyNone),
              readyInMinutes |-> Get(raw_recipe, "readyInMinutes", PyNone),
              servings |-> Get(raw_recipe, "servings", PyNone),
              sourceUrl |-> Get(raw_recipe, "sourceUrl", PyNone),
              summary |-> summary.value,
              nutrition |-> nutrition.value,
              usedIngredients |-> used.value,
              missedIngredients |-> missed.value,
              diets |-> Get(raw_recipe, "diets", EmptyList),
              healthScore |-> Get(raw_recipe, "healthScore", PyNum(0)) ]))

\* Lines 73-75: recipes.append(self._format_recipe(result)) for each result
RECURSIVE FormatAll(_, _)
FormatAll(results, recipes) ==
    IF results = <<>> THEN Returned(PyList(recipes))
    ELSE LET formatted == format_recipe(Head(results)) IN
         IF formatted.exc # "none" THEN formatted
         ELSE FormatAll(Tail(results), Append(recipes, formatted.value))

\* Lines 54-66: the query parameters (True is 1), then the FilterSet's
\* entries written over them when the FilterSet is not empty.
SearchParams(names, fs) ==
    fs.v @@ [ includeIngredients |-> PyStr(Join(S_comma, names)),
              number |-> PyNum(10),
              addRecipeInformation |-> PyNum(1),
              addRecipeNutrition |-> PyNum(1),
              fillIngredients |-> PyNum(1),
              sort |-> PyStr(S_sort) ]

\* search_recipes(ingredients, filters), lines 34-80; response is the outcome
\* of session.get / raise_for_status / json: the decoded body or a
\* requests.RequestException.
search_recipes(names, fs, response) ==
    [params |-> SearchParams(names, fs)]
    @@ IF response.exc # "none"
       THEN RaisedMsg("Exception", S_SpoonacularError \o response.msg)
       ELSE IF response.value.t # "dict" THEN Raised("AttributeError")
       ELSE LET results == Iterate(Get(response.value, "results", EmptyList)) IN
            IF results.exc # "none" THEN results
            ELSE FormatAll(results.value, <<>>)

(***************************************************************************)
(* Mapper, search and validator together: every state holds one profile    *)
(* and one raw Spoonacular recipe, the FilterSet the caller holds, and the *)
(* outcomes of the calls made so far.                                      *)
(***************************************************************************)
\* Entries of the raw "nutrition.nutrients" list: key nutrients, one that
\* _format_recipe drops, and one without "unit".
RawNutrients ==
    { Nutrient(S_Sugar, 6), Nutrient(S_Sugar, 5), Nutrient(S_Protein, 30),
      Nutrient(S_Cholesterol, 51),
      PyDict(("name" :> PyStr(S_Fiber)) @@ ("amount" :> PyNum(4))) }

RawRecipe(q) ==
    PyDict([ id |-> PyNum(1),
             title |-> PyStr(S_Soup),
             summary |-> PyStr(S_Soup),
             usedIngredients |-> PyList(<<PyDict("name" :> PyStr(S_tomato))>>),
             nutrition |-> PyDict("nutrients" :> PyList(q)) ])

RawRecipes == {RawRecipe(q) : q \in SeqsUpTo(RawNutrients, MaxNutrients)} \cup {EmptyDict}

PipelineProfiles ==
    { Profile("condition" :> PyStr(S_diabetes), <<>>, <<>>),
      Profile("condition" :> PyStr(S_muscle_build), <<>>, <<>>),
      Profile("condition" :> PyStr(S_kidney_disease), <<>>, <<>>),
      Profile("condition" :> PyStr(S_diabetes),
              "intolerances" :> PyList(<<PyStr(S_dairy)>>), "diet" :> PyStr(S_vegan)),
      EmptyDict }

\* What the complexSearch request can give for the recipe of the state.
SearchResponses ==
    { Returned(PyDict("results" :> PyList(<<recipe>>))),
      Returned(EmptyDict),
      RaisedMsg("RequestException", S_refused) }

InitPipeline ==
    /\ confidence_threshold = DefaultThreshold
    /\ set_call = NoCall
    /\ IdleCall
    /\ user_profile \in PipelineProfiles
    /\ recipe \in RawRecipes
    /\ filters = NoOutcome
    /\ validation = NoOutcome
    /\ NoPipeline
    /\ NoApp

\* Any caller: fs = build_recipe_filters(user_profile).  The log keeps what
\* the caller held when the call was made and what the call returned.
CallBuildRecipeFilters ==
    /\ Len(filter_sets) < MaxBuildCalls
    /\ filters' = build_recipe_filters(user_profile)
    /\ filter_sets' = Append(filter_sets, [held |-> filters, returned |-> filters'])
    /\ UNCHANGED <<user_profile, recipe, validation, validator_filters, search_result>>
    /\ UNCHANGED <<visionVars, appVars>>

\* The caller changes the FilterSet it was given: fs["maxSugar"] = 0, or
\* fs.clear().
MutateFilterSet(how) ==
    /\ filters.exc = "none"
    /\ filters' = Returned(PyDict(IF how = "set"
                                  THEN ("maxSugar" :> PyNum(0)) @@ filters.value.v
                                  ELSE <<>>))
    /\ filters' # filters
    /\ UNCHANGED <<user_profile, recipe, validation>>
    /\ UNCHANGED <<visionVars, pipelineVars, appVars>>

\* analyze_cart, app.py lines 211-217: filters = build_recipe_filters(...),
\* then recipe_service.search_recipes(ingredients=..., filters=filters).
BuildAndSearch(response) ==
    /\ Len(filter_sets) < MaxBuildCalls
    /\ LET fs == build_recipe_filters(user_profile) IN
       /\ filters' = fs
       /\ filter_sets' = Append(filter_sets, [held |-> filters, returned |-> fs])
       /\ search_result' = IF fs.exc # "none" THEN fs
                           ELSE search_recipes(<<S_tomato>>, fs.value, response)
    /\ UNCHANGED <<user_profile, recipe, validation, validator_filters>>
    /\ UNCHANGED <<visionVars, appVars>>

\* validate_recipe_for_user(returned, user_profile) on the first recipe the
\* search returned; line 103 recomputes the FilterSet.
ValidateReturned ==
    /\ search_result.exc = "none"
    /\ search_result.value.v # <<>>
    /\ validator_filters' = build_recipe_filters(user_profile)
    /\ validation' = validate_recipe_for_user(search_result.value.v[1], user_profile)
    /\ UNCHANGED <<user_profile, recipe, filters, filter_sets, search_result>>
    /\ UNCHANGED <<visionVars, appVars>>

NextPipeline ==
    \/ CallBuildRecipeFilters
    \/ \E how \in {"set", "clear"} : MutateFilterSet(how)
    \/ \E response \in SearchResponses : BuildAndSearch(response)
    \/ ValidateReturned

SpecPipeline == InitPipeline /\ [][NextPipeline]_vars

(***************************************************************************)
(* Claims about the mapper, the search adapter and the validator together. *)
(***************************************************************************)
\* The query parameters search_recipes sends besides the FilterSet.
BaseParams ==
    {"includeIngredients", "number", "addRecipeInformation", "addRecipeNutrition",
     "fillIngredients", "sort"}

\* The FilterSet handed to the search, read back from the request.
HandedToSearch ==
    [k \in DOMAIN search_result.params \ BaseParams |-> search_result.params[k]]

ReturnedHas(r, nutrient) ==
    /\ nutrient \in DOMAIN NutritionKey
    /\ NutritionKey[nutrient] \in DOMAIN r.v["nutrition"].v
ReturnedAmount(r, nutrient) == r.v["nutrition"].v[NutritionKey[nutrient]].v["amount"].v

\* C16: the validator reads the nutrient amounts the search adapter returned:
\* for every recipe in the shape search_recipes / _format_recipe produces
\* whose amount of a nutrient violates a bound of the profile's FilterSet
\* (sugar above maxSugar = 5 for diabetes), validate_recipe_for_user applied
\* to that returned recipe reports the violation, and it reports no violation
\* for a min* bound that the returned amount satisfies.
C16_ReadsReturnedAmounts ==
    (validation.exc = "none" /\ search_result.exc = "none" /\ search_result.value.v # <<>>)
    => LET r == search_result.value.v[1] IN
       \A i \in DOMAIN CheckedBounds :
         LET b == CheckedBounds[i] IN
         (b.key \in DOMAIN BoundsFor(user_profile) /\ ReturnedHas(r, b.nutrient))
         => LET actual == ReturnedAmount(r, b.nutrient)
                bound  == BoundsFor(user_profile)[b.key]
            IN
            /\ (b.max /\ actual > bound)
               => /\ ~validation.value.valid
                  /\ ExceedsText(b, actual, bound) \in Range(validation.value.warnings)
            /\ (~b.max /\ actual >= bound)
               => \A w \in Range(validation.value.warnings) :
                    SubSeq(w, 1, Len(b.title) + 2) # b.title \o S_colon

(***************************************************************************)
(* USDANutritionService (nutrition_service.py).                            *)
(***************************************************************************)
\* Lines 66 and 90: f"USDA API error: {str(e)}"
S_USDAError == <<"U","S","D","A"," ","A","P","I"," ","e","r","r","o","r",":"," ">>
S_egg == <<"e","g","g">>
S_Tomatoes == <<"T","o","m","a","t","o","e","s">>
S_G == <<"G">>

\* Lines 146-156
nutrient_mapping ==
    (<<"E","n","e","r","g","y">> :> "calories")
    @@ (<<"P","r","o","t","e","i","n">> :> "protein")
    @@ (<<"T","o","t","a","l"," ","l","i","p","i","d"," ","(","f","a","t",")">> :> "fat")
    @@ (<<"C","a","r","b","o","h","y","d","r","a","t","e",","," ","b","y"," ","d","i","f","f","e","r","e","n","c","e">> :> "carbohydrates")
    @@ (<<"F","i","b","e","r",","," ","t","o","t","a","l"," ","d","i","e","t","a","r","y">> :> "fiber")
    @@ (<<"S","u","g","a","r","s",","," ","t","o","t","a","l"," ","i","n","c","l","u","d","i","n","g"," ","N","L","E","A">> :> "sugar")
    @@ (<<"S","o","d","i","u","m",","," ","N","a">> :> "sodium")
    @@ (<<"C","h","o","l","e","s","t","e","r","o","l">> :> "cholesterol")
    @@ (<<"F","a","t","t","y"," ","a","c","i","d","s",","," ","t","o","t","a","l"," ","s","a","t","u","r","a","t","e","d">> :> "saturatedFat")

\* Lines 158-166: the loop over raw_data.get("foodNutrients", [])
RECURSIVE FoodNutrients(_, _)
FoodNutrients(items, nutrients) ==
    IF items = <<>> THEN Returned(PyDict(nutrients))
    ELSE LET nutrient == Head(items) IN
         IF nutrient.t # "dict" THEN Raised("AttributeError")
         ELSE LET info == Get(nutrient, "nutrient", EmptyDict) IN
         IF info.t # "dict" THEN Raised("AttributeError")
         ELSE LET nutrient_name == Get(info, "name", PyStr(<<>>)) IN
         IF nutrient_name.t = "str" /\ nutrient_name.v \in DOMAIN nutrient_mapping
         THEN FoodNutrients(Tail(items),
                  (nutrient_mapping[nutrient_name.v]
                      :> PyDict(("amount" :> Get(nutrient, "amount", PyNum(0)))
                                @@ ("unit" :> Get(info, "unitName", PyStr(<<>>)))))
                  @@ nutrients)
         ELSE FoodNutrients(Tail(items), nutrients)

\* _format_nutrition(raw_data), lines 135-173
format_nutrition(raw_data) ==
    IF raw_data.t # "dict" THEN Raised("AttributeError")
    ELSE LET items == Iterate(Get(raw_data, "foodNutrients", EmptyList)) IN
    IF items.exc # "none" THEN items
    ELSE LET nutrients == FoodNutrients(items.value, <<>>) IN
    IF nutrients.exc # "none" THEN nutrients
    ELSE Returned(PyDict(
            [ description |-> Get(raw_data, "description", PyStr(<<>>)),
              servingSize |-> Get(raw_data, "servingSize", PyNone),
              servingSizeUnit |-> Get(raw_data, "servingSizeUnit", PyStr(S_g)),
              nutrients |-> nutrients.value ]))

\* search_food(query, page_size), lines 34-66; response is the outcome of
\* session.get / raise_for_status / json.
search_food(query, response) ==
    IF response.exc # "none" THEN RaisedMsg("Exception", S_USDAError \o response.msg)
    ELSE IF response.value.t # "dict" THEN RaisedMsg("AttributeError", <<>>)
    ELSE LET items == Iterate(Get(response.value, "foods", EmptyList)) IN
    IF items.exc # "none" THEN RaisedMsg(items.exc, <<>>)
    ELSE IF \E i \in DOMAIN items.value : items.value[i].t # "dict"
    THEN RaisedMsg("AttributeError", <<>>)
    ELSE Returned([i \in DOMAIN items.value |->
                      PyDict([ fdcId |-> Get(items.value[i], "fdcId", PyNone),
                               description |-> Get(items.value[i], "description", PyNone),
                               dataType |-> Get(items.value[i], "dataType", PyNone),
                               brandOwner |-> Get(items.value[i], "brandOwner", PyNone) ])])

\* get_food_nutrition(fdc_id), lines 68-90
get_food_nutrition(fdc_id, response) ==
    IF response.exc # "none" THEN RaisedMsg("Exception", S_USDAError \o response.msg)
    ELSE LET formatted == format_nutrition(response.value) IN
         IF formatted.exc # "none" THEN RaisedMsg(formatted.exc, <<>>)
         ELSE formatted

\* Lines 106-131: the body of the loop of get_nutrition_info for one
\* ingredient; round_trip gives the outcomes of its search and detail calls.
NutritionEntry(ingredient, round_trip) ==
    LET foods == search_food(ingredient, round_trip.search) IN
    IF foods.exc # "none"
    THEN PyDict([found |-> PyNum(0), error |-> PyStr(foods.msg)])
    ELSE IF foods.value = <<>>
    THEN PyDict([found |-> PyNum(0), matchedFood |-> PyNone, nutrition |-> PyNone])
    ELSE LET nutrition == get_food_nutrition(foods.value[1].v["fdcId"], round_trip.detail) IN
         IF nutrition.exc # "none"
         THEN PyDict([found |-> PyNum(0), error |-> PyStr(nutrition.msg)])
         ELSE PyDict([ found |-> PyNum(1),
                       matchedFood |-> foods.value[1].v["description"],
                       nutrition |-> nutrition.value ])

\* get_nutrition_info(ingredients), lines 94-133: a mapping from ingredient
\* name to its entry (True is 1, False is 0).
get_nutrition_info(names, round_trips) ==
    PyDict([name \in Range(names) |->
              LET last == CHOOSE i \in DOMAIN names :
                            names[i] = name /\ \A j \in DOMAIN names : names[j] = name => j <= i
              IN NutritionEntry(name, round_trips[last])])

(***************************************************************************)
(* The Flask application (app.py): service handles, lazy initialization    *)
(* and the routes.  Worker threads serve requests concurrently.            *)
(***************************************************************************)
MaxRequests == 2    \* requests received in one run of the process

Threads == {1, 2}

S_VisionUnavailable == <<"V","i","s","i","o","n"," ","s","e","r","v","i","c","e"," ","u","n","a","v","a","i","l","a","b","l","e","."," ","P","l","e","a","s","e"," ","c","h","e","c","k"," ","R","O","B","O","F","L","O","W","_","A","P","I","_","K","E","Y",".">>
S_RecipeUnavailable == <<"R","e","c","i","p","e"," ","s","e","r","v","i","c","e"," ","u","n","a","v","a","i","l","a","b","l","e","."," ","P","l","e","a","s","e"," ","c","h","e","c","k"," ","S","P","O","O","N","A","C","U","L","A","R","_","A","P","I","_","K","E","Y",".">>
S_NutritionUnavailable == <<"N","u","t","r","i","t","i","o","n"," ","s","e","r","v","i","c","e"," ","u","n","a","v","a","i","l","a","b","l","e","."," ","P","l","e","a","s","e"," ","c","h","e","c","k"," ","U","S","D","A","_","A","P","I","_","K","E","Y",".">>
S_MissingImage == <<"M","i","s","s","i","n","g"," ","\"","i","m","a","g","e","\""," ","f","i","e","l","d"," ","i","n"," ","r","e","q","u","e","s","t"," ","b","o","d","y",".">>
S_MissingImageUrl == <<"M","i","s","s","i","n","g"," ","\"","i","m","a","g","e","_","u","r","l","\""," ","f","i","e","l","d"," ","i","n"," ","r","e","q","u","e","s","t"," ","b","o","d","y",".">>
S_MissingIngredients == <<"M","i","s","s","i","n","g"," ","\"","i","n","g","r","e","d","i","e","n","t","s","\""," ","f","i","e","l","d"," ","i","n"," ","r","e","q","u","e","s","t"," ","b","o","d","y",".">>
S_ServiceUnavailable == <<"S","e","r","v","i","c","e"," ","u","n","a","v","a","i","l","a","b","l","e","."," ","P","l","e","a","s","e"," ","t","r","y"," ","a","g","a","i","n"," ","l","a","t","e","r",".">>
S_healthy == <<"h","e","a","l","t","h","y">>

\* jsonify(...), status: True is 1, False is 0
Response(status, body) == [status |-> status, body |-> body]
ErrorBody(text) == PyDict([success |-> PyNum(0), error |-> PyStr(text)])
NoResponse == [status |-> 0]

\* The `except Exception` branch of every route: a fixed body, 503.
ServiceUnavailable == Response(503, ErrorBody(S_ServiceUnavailable))

\* Lines 58-69
health_check ==
    Response(200, PyDict([ status |-> PyStr(S_healthy),
                           services |-> PyDict([ vision |-> PyNum(IF vision_service # 0 THEN 1 ELSE 0),
                                                 recipe |-> PyNum(IF recipe_service # 0 THEN 1 ELSE 0),
                                                 nutrition |-> PyNum(IF nutrition_service # 0 THEN 1 ELSE 0) ]) ]))

\* Lines 73-124 and 127-169: detection is the outcome of
\* vision_service.detect_ingredients / detect_ingredients_from_url.
detect_ingredients(field, missing, data, detection) ==
    IF vision_service = 0 THEN Response(503, ErrorBody(S_VisionUnavailable))
    ELSE IF ~Truthy(data) \/ field \notin DOMAIN data.v THEN Response(400, ErrorBody(missing))
    ELSE IF data.v[field].t # "str" THEN ServiceUnavailable
    ELSE IF detection.exc # "none" THEN ServiceUnavailable
    ELSE Response(200, PyDict([success |-> PyNum(1), ingredients |-> detection.value]))

\* The names in a JSON list of strings.
NamesOf(list) == [i \in DOMAIN list.v |-> list.v[i].v]

\* Lines 172-227: response is the outcome of the complexSearch round trip.
analyze_cart(data, response) ==
    IF recipe_service = 0 THEN Response(503, ErrorBody(S_RecipeUnavailable))
    ELSE IF ~Truthy(data) \/ "ingredients" \notin DOMAIN data.v
    THEN Response(400, ErrorBody(S_MissingIngredients))
    ELSE LET fs == build_recipe_filters(Get(data, "user_profile", EmptyDict)) IN
         IF fs.exc # "none" THEN ServiceUnavailable
         ELSE LET recipes == search_recipes(NamesOf(data.v["ingredients"]), fs.value, response) IN
              IF recipes.exc # "none" THEN ServiceUnavailable
              ELSE Response(200, PyDict([ success |-> PyNum(1),
                                          recipes |-> recipes.value,
                                          applied_filters |-> fs.value ]))

\* Lines 229-276: round_trips gives the outcomes of the USDA calls, per
\* ingredient.
get_nutrition(data, round_trips) ==
    IF nutrition_service = 0 THEN Response(503, ErrorBody(S_NutritionUnavailable))
    ELSE IF ~Truthy(data) \/ "ingredients" \notin DOMAIN data.v
    THEN Response(400, ErrorBody(S_MissingIngredients))
    ELSE Response(200, PyDict([ success |-> PyNum(1),
                                nutrition |-> get_nutrition_info(NamesOf(data.v["ingredients"]),
                                                                 round_trips) ]))

\* JSON bodies of the requests: None (no body), the field missing, the
\* field present.
DetectData == {PyNone, PyDict("other" :> PyNum(1)), PyDict("image" :> PyStr(<<"a">>))}
DetectUrlData == {PyDict("other" :> PyNum(1)), PyDict("image_url" :> PyStr(<<"u">>))}
AnalyzeData ==
    { PyDict("other" :> PyNum(1)),
      PyDict("ingredients" :> PyList(<<PyStr(S_tomato)>>)),
      PyDict(("ingredients" :> PyList(<<PyStr(S_tomato)>>))
             @@ ("user_profile" :> Profile("condition" :> PyStr(S_diabetes), <<>>, <<>>))) }
NutritionData ==
    { PyDict("other" :> PyNum(1)),
      PyDict("ingredients" :> PyList(<<PyStr(S_tomato)>>)),
      PyDict("ingredients" :> PyList(<<PyStr(S_tomato), PyStr(S_egg)>>)) }

\* Outcomes of the remote calls the routes make.
TransportFailure == RaisedMsg("RequestException", S_refused)
Detections == {Returned(PyList(<<PyStr(S_tomato)>>)), RaisedMsg("Exception", S_refused)}
AnalyzeResponses ==
    { Returned(PyDict("results" :> PyList(<<RawRecipe(<<Nutrient(S_Sugar, 6)>>)>>))),
      TransportFailure }
FoodsFound ==
    Returned(PyDict("foods" :> PyList(<<PyDict([fdcId |-> PyNum(7),
                                                  description |-> PyStr(S_Tomatoes)])>>)))
FoodDetail ==
    Returned(PyDict([ description |-> PyStr(S_Tomatoes),
                      foodNutrients |->
                          PyList(<<PyDict([ nutrient |-> PyDict([name |-> PyStr(S_Protein),
                                                                  unitName |-> PyStr(S_G)]),
                                            amount |-> PyNum(1) ])>>) ]))
RoundTrips ==
    { [search |-> TransportFailure, detail |-> TransportFailure],
      [search |-> Returned(EmptyDict), detail |-> TransportFailure],
      [search |-> FoodsFound, detail |-> TransportFailure],
      [search |-> FoodsFound, detail |-> FoodDetail] }

\* Whether the calls made for one ingredient met a transport failure.
RoundTripFailed(round_trip) ==
    \/ round_trip.search.exc # "none"
    \/ /\ round_trip.search = FoodsFound
       /\ round_trip.detail.exc # "none"

IdleRequest ==
    [pc |-> "idle", route |-> "", data |-> PyNone, response |-> NoResponse,
     failures |-> {}, run |-> 0, n |-> 0]

\* Module import, lines 21-24: the three handles are None; the environment
\* supplies any subset of the three API keys.
InitApp ==
    /\ confidence_threshold = DefaultThreshold
    /\ set_call = NoCall
    /\ IdleCall
    /\ NoLogic
    /\ NoPipeline
    /\ config \in [ROBOFLOW_API_KEY : BOOLEAN, SPOONACULAR_API_KEY : BOOLEAN,
                   USDA_API_KEY : BOOLEAN]
    /\ vision_service = 0 /\ recipe_service = 0 /\ nutrition_service = 0
    /\ init_runs = 0
    /\ requests = [t \in Threads |-> IdleRequest]

Received == requests[1].n + requests[2].n

\* A worker thread takes a request.
Receive(t, route, data) ==
    /\ requests[t].pc \in {"idle", "done"}
    /\ Received < MaxRequests
    /\ requests' = [requests EXCEPT ![t] =
                      [pc |-> "before_request", route |-> route, data |-> data,
                       response |-> NoResponse, failures |-> {}, run |-> 0, n |-> @.n + 1]]
    /\ UNCHANGED <<config, vision_service, recipe_service, nutrition_service, init_runs>>
    /\ UNCHANGED <<visionVars, logicVars, pipelineVars>>

\* ensure_services, lines 52-56
EnsureServices(t) ==
    /\ requests[t].pc = "before_request"
    /\ requests' = [requests EXCEPT ![t].pc =
                      IF vision_service = 0 /\ recipe_service = 0
                      THEN "init_services" ELSE "view"]
    /\ UNCHANGED <<config, vision_service, recipe_service, nutrition_service, init_runs>>
    /\ UNCHANGED <<visionVars, logicVars, pipelineVars>>

\* init_services, lines 31-37: Config.validate(), then the vision handle.
\* The objects of the n-th run are numbered n.
InitVision(t) ==
    /\ requests[t].pc = "init_services"
    /\ init_runs' = init_runs + 1
    /\ vision_service' = IF config.ROBOFLOW_API_KEY THEN init_runs + 1 ELSE vision_service
    /\ requests' = [requests EXCEPT ![t].pc = "init_recipe", ![t].run = init_runs + 1]
    /\ UNCHANGED <<config, recipe_service, nutrition_service>>
    /\ UNCHANGED <<visionVars, logicVars, pipelineVars>>

\* init_services, lines 40-43
InitRecipe(t) ==
    /\ requests[t].pc = "init_recipe"
    /\ recipe_service' = IF config.SPOONACULAR_API_KEY THEN requests[t].run ELSE recipe_service
    /\ requests' = [requests EXCEPT ![t].pc = "init_nutrition"]
    /\ UNCHANGED <<config, vision_service, nutrition_service, init_runs>>
    /\ UNCHANGED <<visionVars, logicVars, pipelineVars>>

\* init_services, lines 45-48
InitNutrition(t) ==
    /\ requests[t].pc = "init_nutrition"
    /\ nutrition_service' = IF config.USDA_API_KEY THEN requests[t].run ELSE nutrition_service
    /\ requests' = [requests EXCEPT ![t].pc = "view"]
    /\ UNCHANGED <<config, vision_service, recipe_service, init_runs>>
    /\ UNCHANGED <<visionVars, logicVars, pipelineVars>>

\* The view function has run: its response and the str(e) of the remote
\* failures it met.
Respond(t, response, failures) ==
    /\ requests' = [requests EXCEPT ![t].pc = "done", ![t].response = response,
                                    ![t].failures = failures]
    /\ UNCHANGED <<config, vision_service, recipe_service, nutrition_service, init_runs>>
    /\ UNCHANGED <<visionVars, logicVars, pipelineVars>>

HealthCheck(t) ==
    /\ requests[t].pc = "view" /\ requests[t].route = "/api/health"
    /\ Respond(t, health_check, {})

DetectIngredients(t, detection) ==
    /\ requests[t].pc = "view" /\ requests[t].route = "/api/detect"
    /\ LET response == detect_ingredients("image", S_MissingImage, requests[t].data, detection) IN
       Respond(t, response,
               IF response.status \in {200, 503} /\ vision_service # 0 /\ detection.exc # "none"
               THEN {detection.msg} ELSE {})

DetectIngredientsFromUrl(t, detection) ==
    /\ requests[t].pc = "view" /\ requests[t].route = "/api/detect-url"
    /\ LET response == detect_ingredients("image_url", S_MissingImageUrl, requests[t].data,
                                          detection) IN
       Respond(t, response,
               IF response.status \in {200, 503} /\ vision_service # 0 /\ detection.exc # "none"
               THEN {detection.msg} ELSE {})

AnalyzeCart(t, response) ==
    /\ requests[t].pc = "view" /\ requests[t].route = "/api/analyze"
    /\ LET answer == analyze_cart(requests[t].data, response) IN
       Respond(t, answer,
               IF answer.status \in {200, 503} /\ recipe_service # 0 /\ response.exc # "none"
               THEN {response.msg} ELSE {})

GetNutrition(t, round_trips) ==
    /\ requests[t].pc = "view" /\ requests[t].route = "/api/nutrition"
    /\ DOMAIN round_trips = DOMAIN Get(requests[t].data, "ingredients", PyList(<<1>>)).v
    /\ LET answer == get_nutrition(requests[t].data, round_trips) IN
       Respond(t, answer,
               IF answer.status = 200
               THEN {S_refused : i \in {i \in DOMAIN requests[t].data.v["ingredients"].v :
                                          RoundTripFailed(round_trips[i])}}
               ELSE {})

NextApp ==
    \/ \E t \in Threads :
         \/ Receive(t, "/api/health", PyNone)
         \/ \E data \in DetectData : Receive(t, "/api/detect", data)
         \/ \E data \in DetectUrlData : Receive(t, "/api/detect-url", data)
         \/ \E data \in AnalyzeData : Receive(t, "/api/analyze", data)
         \/ \E data \in NutritionData : Receive(t, "/api/nutrition", data)
    \/ \E t \in Threads : EnsureServices(t)
    \/ \E t \in Threads : InitVision(t)
    \/ \E t \in Threads : InitRecipe(t)
    \/ \E t \in Threads : InitNutrition(t)
    \/ \E t \in Threads : HealthCheck(t)
    \/ \E t \in Threads, detection \in Detections : DetectIngredients(t, detection)
    \/ \E t \in Threads, detection \in Detections : DetectIngredientsFromUrl(t, detection)
    \/ \E t \in Threads, response \in AnalyzeResponses : AnalyzeCart(t, response)
    \/ \E t \in Threads, k \in 1..2 :
         \E round_trips \in [1..k -> RoundTrips] : GetNutrition(t, round_trips)

SpecApp == InitApp /\ [][NextApp]_vars

(***************************************************************************)
(* Claims about the application.                                           *)
(***************************************************************************)
\* Every string value inside a JSON body.
RECURSIVE StringsIn(_)
StringsIn(v) ==
    CASE v.t = "str"  -> {v.v}
      [] v.t = "list" -> UNION {StringsIn(v.v[i]) : i \in DOMAIN v.v}
      [] v.t = "dict" -> UNION {StringsIn(v.v[k]) : k \in DOMAIN v.v}
      [] OTHER        -> {}

\* C12: whenever a remote call made by the vision, recipe-search or
\* nutrition-lookup adapter fails, the outcome delivered to the API caller is
\* the uniform "service unavailable" condition and no response body of
\* /api/detect, /api/detect-url, /api/analyze or /api/nutrition carries text
\* derived from the underlying failure.
C12_NoInternalText ==
    \A t \in Threads :
      (requests[t].pc = "done" /\ requests[t].failures # {})
      => /\ requests[t].response = ServiceUnavailable
         /\ \A failure \in requests[t].failures :
              \A text \in StringsIn(requests[t].response.body) : ~Contains(text, failure)

\* C17: the handles vision_service, recipe_service and nutrition_service are
\* read-only after initialization: for every combination of configured and
\* missing API keys and every sequence or interleaving of requests,
\* init_services runs at most once per process and no handle is assigned
\* again by a later run.
C17_InitOnce ==
    /\ init_runs <= 1
    /\ vision_service \in {0, 1}
    /\ recipe_service \in {0, 1}
    /\ nutrition_service \in {0, 1}

(***************************************************************************)
(* Vision service shared by two threads: one runs a detect call, the other *)
(* may call set_confidence_threshold at any moment of it.                  *)
(***************************************************************************)
RacePreds ==
    {Prediction(10000, LblTomato), Prediction(5000, LblTomato2), Prediction(4996, LblEgg)}

RaceResponses ==
    {Raised("TransportError"), Returned(ColdResult)}
    \cup {Returned(PyList(<<NestedOutput(q)>>)) : q \in SeqsUpTo(RacePreds, MaxPreds)}

\* set_confidence_threshold(threshold), lines 176-186, called by another
\* thread while the detect call is in time.sleep (line 76) or between two
\* steps of the extraction loops.
SetConfidenceThresholdDuringCall(threshold) ==
    /\ pc \in {"backoff", "extract"}
    /\ LET o == SetThresholdOutcome(threshold) IN
       /\ confidence_threshold' = IF o.exc = "none" THEN o.value ELSE confidence_threshold
       /\ set_call' = [arg |-> threshold, exc |-> o.exc]
    /\ UNCHANGED <<threshold_at_call, pc, mode, attempt, calls, sleeps, responses, result,
                   oi, pi, ingredients, ret>>
    /\ UNCHANGED <<logicVars, pipelineVars, appVars>>

NextRace ==
    \/ \E threshold \in ThresholdArgs : SetConfidenceThreshold(threshold)
    \/ \E threshold \in ThresholdArgs : SetConfidenceThresholdDuringCall(threshold)
    \/ \E m \in {"plain", "details"} : Detect(m)
    \/ \E resp \in RaceResponses : RunWorkflowAttempt(resp)
    \/ RunWorkflowSleep
    \/ ExtractStep
    \/ Finish

SpecRace == Init /\ [][NextRace]_vars

\* C18: a single detect call filters all of its predictions against one
\* threshold value, the one in force when the call was made: a
\* set_confidence_threshold call that completes while the detect call is in a
\* cold-start backoff sleep or in the middle of extraction does not change
\* which predictions the call includes.
C18_ThresholdAtCall ==
    LET kept == KeptAt(result, threshold_at_call) IN
    /\ PlainReturned
       => Range(ret.value) = {LabelOf(kept[i]) : i \in DOMAIN kept} \ {<<>>}
    /\ DetailsReturned
       => /\ Len(ret.value) = Len(kept)
          /\ \A i \in DOMAIN ret.value : ret.value[i].name = LabelOf(kept[i])

====
